---- MODULE Spec2Model ----
(***************************************************************************)
(* The two transcription endpoints of the repository as a state machine:   *)
(*   /api/asr/translate   src/pages/api/asr/translate.ts                   *)
(*   /api/asr/transcribe  src/unnamed/part_001                             *)
(* Each request runs its handler as a sequence of steps separated by the   *)
(* handler's awaits; the environment (form parser, ffmpeg, the remote file *)
(* service, the generative model, the file system) chooses the outcome of  *)
(* every awaited call.                                                     *)
(***************************************************************************)
EXTENDS Integers, Sequences, FiniteSets, TLC

\* ---------------------------------------------------------------- bounds
\* getFile calls one request may issue before the remote state must be terminal
MaxPolls == 3
\* the millisecond clock read by Date.now() runs over 0..MaxClock
MaxClock == 1

\* ---------------------------------------------------------------- strings
\* JavaScript strings the code inspects, as their sequences of characters.
Chars(s) ==
    CASE s = "audio/mpeg" -> << "a", "u", "d", "i", "o", "/", "m", "p", "e", "g" >>
      [] s = "audio/mp3" -> << "a", "u", "d", "i", "o", "/", "m", "p", "3" >>
      [] s = "audio/wav" -> << "a", "u", "d", "i", "o", "/", "w", "a", "v" >>
      [] s = "audio/ogg" -> << "a", "u", "d", "i", "o", "/", "o", "g", "g" >>
      [] s = "audio/webm" -> << "a", "u", "d", "i", "o", "/", "w", "e", "b", "m" >>
      [] s = "video/webm" -> << "v", "i", "d", "e", "o", "/", "w", "e", "b", "m" >>
      [] s = "video/mp4" -> << "v", "i", "d", "e", "o", "/", "m", "p", "4" >>
      [] s = "text/plain" -> << "t", "e", "x", "t", "/", "p", "l", "a", "i", "n" >>
      [] s = "video/" -> << "v", "i", "d", "e", "o", "/" >>
      [] s = "Audio processing failed" -> << "A", "u", "d", "i", "o", " ", "p", "r", "o", "c", "e", "s", "s", "i", "n", "g", " ", "f", "a", "i", "l", "e", "d" >>
      [] s = "processing failed" -> << "p", "r", "o", "c", "e", "s", "s", "i", "n", "g", " ", "f", "a", "i", "l", "e", "d" >>
      [] s = "No file uploaded" -> << "N", "o", " ", "f", "i", "l", "e", " ", "u", "p", "l", "o", "a", "d", "e", "d" >>
      [] s = "maxFileSize exceeded" -> << "m", "a", "x", "F", "i", "l", "e", "S", "i", "z", "e", " ", "e", "x", "c", "e", "e", "d", "e", "d" >>
      [] s = "ffmpeg exited with code 1" -> << "f", "f", "m", "p", "e", "g", " ", "e", "x", "i", "t", "e", "d", " ", "w", "i", "t", "h", " ", "c", "o", "d", "e", " ", "1" >>
      [] s = "fetch failed" -> << "f", "e", "t", "c", "h", " ", "f", "a", "i", "l", "e", "d" >>
      [] s = "quota exceeded" -> << "q", "u", "o", "t", "a", " ", "e", "x", "c", "e", "e", "d", "e", "d" >>
      [] s = "Unknown error" -> << "U", "n", "k", "n", "o", "w", "n", " ", "e", "r", "r", "o", "r" >>

UpperCase == << "A", "B", "C", "D", "E", "F", "G", "H", "I", "J", "K", "L", "M",
                "N", "O", "P", "Q", "R", "S", "T", "U", "V", "W", "X", "Y", "Z" >>
LowerCase == << "a", "b", "c", "d", "e", "f", "g", "h", "i", "j", "k", "l", "m",
                "n", "o", "p", "q", "r", "s", "t", "u", "v", "w", "x", "y", "z" >>

\* String.prototype.toLowerCase on a sequence of characters
ToLowerCase(cs) ==
    [i \in 1..Len(cs) |->
        IF \E k \in 1..26 : UpperCase[k] = cs[i]
        THEN LowerCase[CHOOSE k \in 1..26 : UpperCase[k] = cs[i]]
        ELSE cs[i]]

\* String.prototype.startsWith
StartsWith(cs, prefix) ==
    /\ Len(cs) >= Len(prefix)
    /\ SubSeq(cs, 1, Len(prefix)) = prefix

\* String.prototype.includes
Includes(cs, sub) ==
    \E i \in 0..(Len(cs) - Len(sub)) : SubSeq(cs, i + 1, i + Len(sub)) = sub

\* ---------------------------------------------------------------- inputs
Requests == {1, 2}
Endpoints == {"translate", "transcribe"}
Methods == {"GET", "POST"}
\* the multipart field the client puts the file under
Fields == {"file", "audio"}
\* a part without a content type reaches the filter with a falsy mimetype
NoMime == ""
MimeTypes == {"audio/mpeg", "audio/mp3", "audio/wav", "audio/ogg", "audio/webm",
              "video/webm", "video/mp4", "text/plain", NoMime}
\* part.originalFilename, as the pieces a path is built from
Filenames == { <<"rec">>, <<"rec", ".mp3">> }
NoUpload == [present |-> FALSE, field |-> "file", mimetype |-> NoMime,
             originalFilename |-> <<"rec">>]
Uploads == {NoUpload} \cup
           [present : {TRUE}, field : Fields, mimetype : MimeTypes,
            originalFilename : Filenames]
RequestSet == [endpoint : Endpoints, method : Methods, upload : Uploads]
IdleRequest == [endpoint |-> "translate", method |-> "GET", upload |-> NoUpload]

\* FileState of @google/generative-ai/server, as the handlers use it
FileStates == {"PROCESSING", "ACTIVE", "FAILED"}
\* what an awaited SDK call can throw: an Error, a string, or something else
SdkThrown == { [kind |-> "Error", message |-> "fetch failed"],
               [kind |-> "string", message |-> "quota exceeded"],
               [kind |-> "other", message |-> ""] }
ParserThrown == [kind |-> "Error", message |-> "maxFileSize exceeded"]
FfmpegThrown == [kind |-> "Error", message |-> "ffmpeg exited with code 1"]
UnlinkThrown == [kind |-> "Error", message |-> "ENOENT"]
Texts == {"transcript"}

VARIABLES
    req,            \* req[r]: the HTTP request r (endpoint, method, multipart body)
    pc,             \* pc[r]: the await the handler of r is suspended at
    now,            \* Date.now()
    disk,           \* the paths that hold a file
    parsedFiles,    \* translate.ts:93  let parsedFiles
    processedFile,  \* translate.ts:112 let processedFile / part_001:38 file
    polls,          \* the states getFile has returned to r, in order
    calls,          \* per request, the external calls, their results, the responses
    responses,      \* per request, the responses written to res
    rejected        \* rejected[r]: the promise handler(req, res) returned rejected

vars == << req, pc, now, disk, parsedFiles, processedFile, polls, calls,
           responses, rejected >>

NoPath == << >>
NullFiles == [null |-> TRUE, files |-> << >>]
NoProcessed == [filepath |-> NoPath, mimetype |-> NoMime]

\* ---------------------------------------------------------------- log
Event(kind, op, path, val) == [kind |-> kind, op |-> op, path |-> path, val |-> val]
CallEv(op, path, val) == Event("call", op, path, val)
ReturnEv(op, path, val) == Event("return", op, path, val)
ThrowEv(op, path, val) == Event("throw", op, path, val)
RespondEv(status) == Event("respond", "res.json", NoPath, ToString(status))

Init ==
    /\ \E rq \in RequestSet :
          req = [r \in Requests |-> IF r = 1 THEN rq ELSE IdleRequest]
    /\ pc = [r \in Requests |-> IF r = 1 THEN "entry" ELSE "absent"]
    /\ now = 0
    /\ disk = {}
    /\ parsedFiles = [r \in Requests |-> NullFiles]
    /\ processedFile = [r \in Requests |-> NoProcessed]
    /\ polls = [r \in Requests |-> << >>]
    /\ calls = [r \in Requests |-> << >>]
    /\ responses = [r \in Requests |-> << >>]
    /\ rejected = [r \in Requests |-> FALSE]

\* the clock advances between any two steps
Tick ==
    /\ now < MaxClock
    /\ now' = now + 1
    /\ UNCHANGED << req, pc, disk, parsedFiles, processedFile, polls, calls,
                    responses, rejected >>

\* ---------------------------------------------------------------- translate.ts
\* translate.ts:45-52
supportedTypes == {"audio/mpeg", "audio/mp3", "audio/wav", "audio/ogg", "audio/webm",
                   "video/webm"}

\* translate.ts:44-60  filter: ({ mimetype }) => ...
Translate_filter(mimetype) ==
    ~(mimetype = NoMime \/ mimetype \notin supportedTypes)

\* translate.ts:62-63  uploadDir "/tmp", filename `${Date.now()}-${part.originalFilename}`
Translate_filename(t, originalFilename) ==
    << "/tmp/", ToString(t), "-" >> \o originalFilename

\* translate.ts:18 and :180  `${inputPath}.mp3`, file.filepath + ".mp3"
Mp3Path(path) == Append(path, ".mp3")

\* the test of :113 without its audio/webm half
NeedsConversion_videoOnly(mimetype) ==
    StartsWith(Chars(mimetype), Chars("video/"))

\* translate.ts:113
NeedsConversion(mimetype) ==
    StartsWith(Chars(mimetype), Chars("video/")) \/ mimetype = "audio/webm"

\* the loop test of :132 written as "until ACTIVE"
Translate_whileNotActive(state) == state # "ACTIVE"

\* the loop of :132 never entered: the state is read once
Translate_whileNever(state) == FALSE

\* translate.ts:132  while (processedFileStatus.state === FileState.PROCESSING)
Translate_whileProcessing(state) == state = "PROCESSING"

\* the catch of :166-172 with the message dropped
Translate_details_dropped(err) == "Unknown error"

\* translate.ts:170-171
Translate_details(err) ==
    IF err.kind = "Error" THEN err.message
    ELSE IF err.kind = "string" THEN err.message
    ELSE "Unknown error"

\* the cleanup of :173-186 left out: the handler ends after the response
Translate_finally_skipped(r, pf, log) ==
    /\ calls' = [calls EXCEPT ![r] = @ \o log]
    /\ pc' = [pc EXCEPT ![r] = "done"]

\* translate.ts:173-186, up to the first await of the finally block
Translate_finally(r, pf, log) ==
    LET cleanup == ~pf.null /\ "file" \in DOMAIN pf.files
    IN  /\ calls' = [calls EXCEPT ![r] =
                        @ \o log \o
                        IF cleanup
                        THEN << CallEv("fs.unlink", pf.files["file"].filepath, "") >>
                        ELSE << >>]
        /\ pc' = [pc EXCEPT ![r] = IF cleanup THEN "unlinkOriginal" ELSE "done"]

\* the response written only once the finally block has started its first unlink
Translate_respond_cleanupFirst(r, status, body, pf, log) ==
    LET cleanup == ~pf.null /\ "file" \in DOMAIN pf.files
    IN  /\ responses' = [responses EXCEPT ![r] =
                            Append(@, [status |-> status, body |-> body])]
        /\ calls' = [calls EXCEPT ![r] =
                        @ \o log \o
                        (IF cleanup
                         THEN << CallEv("fs.unlink", pf.files["file"].filepath, "") >>
                         ELSE << >>) \o
                        << RespondEv(status) >>]
        /\ pc' = [pc EXCEPT ![r] = IF cleanup THEN "unlinkOriginal" ELSE "done"]

\* return res.status(status).json(body) inside the try or the catch, then finally
Translate_respond(r, status, body, pf, log) ==
    /\ responses' = [responses EXCEPT ![r] =
                        Append(@, [status |-> status, body |-> body])]
    /\ Translate_finally(r, pf, log \o << RespondEv(status) >>)

\* translate.ts:166-172
Translate_catch(r, err, pf, log) ==
    Translate_respond(r, 500,
                      [error |-> "Processing failed", details |-> Translate_details(err)],
                      pf, log)

\* Translate_handler with the return of :90 lost: the 405 is sent and the handler goes on
Translate_handler_noReturn(r) ==
    /\ pc[r] = "entry"
    /\ req[r].endpoint = "translate"
    /\ IF req[r].method # "POST"
       THEN /\ responses' = [responses EXCEPT ![r] =
                    Append(@, [status |-> 405, body |-> [error |-> "Method not allowed"]])]
            /\ calls' = [calls EXCEPT ![r] = @ \o
                    << RespondEv(405), CallEv("parseFormData", NoPath, "") >>]
       ELSE /\ calls' = [calls EXCEPT ![r] = Append(@, CallEv("parseFormData", NoPath, ""))]
            /\ UNCHANGED responses
    /\ pc' = [pc EXCEPT ![r] = "parse"]
    /\ UNCHANGED << req, now, disk, parsedFiles, processedFile, polls, rejected >>

\* translate.ts:88-97: the method check, then the call of parseFormData
Translate_handler(r) ==
    /\ pc[r] = "entry"
    /\ req[r].endpoint = "translate"
    /\ IF req[r].method # "POST"
       THEN /\ responses' = [responses EXCEPT ![r] =
                    Append(@, [status |-> 405, body |-> [error |-> "Method not allowed"]])]
            /\ calls' = [calls EXCEPT ![r] = Append(@, RespondEv(405))]
            /\ pc' = [pc EXCEPT ![r] = "done"]
       ELSE /\ calls' = [calls EXCEPT ![r] = Append(@, CallEv("parseFormData", NoPath, ""))]
            /\ pc' = [pc EXCEPT ![r] = "parse"]
            /\ UNCHANGED responses
    /\ UNCHANGED << req, now, disk, parsedFiles, processedFile, polls, rejected >>

\* translate.ts:40-86 parseFormData settles, then translate.ts:97-126 up to the
\* next await (convertToMp3 or uploadFile)
Translate_parseFormData(r) ==
    /\ pc[r] = "parse"
    /\ req[r].endpoint = "translate"
    /\ LET u == req[r].upload
           accepted == u.present /\ Translate_filter(u.mimetype)
           path == Translate_filename(now, u.originalFilename)
           file == [filepath |-> path, mimetype |-> u.mimetype,
                    originalFilename |-> u.originalFilename]
           files == IF accepted THEN [k \in {u.field} |-> file] ELSE << >>
           pf == [null |-> FALSE, files |-> files]
       IN  \/ \* form.parse calls back with err (:69-72); formidable removes what it wrote
              /\ Translate_catch(r, ParserThrown, NullFiles,
                     << ThrowEv("parseFormData", NoPath, ParserThrown.message) >>)
              /\ UNCHANGED << disk, parsedFiles, processedFile >>
           \/ \* :78-81 no file survived the filter
              /\ DOMAIN files = {}
              /\ Translate_catch(r, [kind |-> "Error", message |-> "No file uploaded"],
                     NullFiles,
                     << ThrowEv("parseFormData", NoPath, "No file uploaded") >>)
              /\ UNCHANGED << disk, parsedFiles, processedFile >>
           \/ \* :83 resolve({ files }); the accepted part was written to path
              /\ DOMAIN files # {}
              /\ disk' = disk \cup {path}
              /\ parsedFiles' = [parsedFiles EXCEPT ![r] = pf]
              /\ IF "file" \notin DOMAIN files \/ file.mimetype = NoMime
                 THEN \* :101-103
                      /\ Translate_respond(r, 400, [error |-> "Invalid or missing file"], pf,
                             << ReturnEv("parseFormData", path, "") >>)
                      /\ UNCHANGED processedFile
                 ELSE IF NeedsConversion(file.mimetype)
                 THEN \* :113-114
                      /\ processedFile' = [processedFile EXCEPT ![r] =
                             [filepath |-> path, mimetype |-> file.mimetype]]
                      /\ calls' = [calls EXCEPT ![r] = @ \o
                             << ReturnEv("parseFormData", path, ""),
                                CallEv("convertToMp3", path, "") >>]
                      /\ pc' = [pc EXCEPT ![r] = "convert"]
                      /\ UNCHANGED responses
                 ELSE \* :112, :123
                      /\ processedFile' = [processedFile EXCEPT ![r] =
                             [filepath |-> path, mimetype |-> file.mimetype]]
                      /\ calls' = [calls EXCEPT ![r] = @ \o
                             << ReturnEv("parseFormData", path, ""),
                                CallEv("uploadFile", path, file.mimetype) >>]
                      /\ pc' = [pc EXCEPT ![r] = "upload"]
                      /\ UNCHANGED responses
    /\ UNCHANGED << req, now, polls, rejected >>

\* Translate_convertToMp3 without the "error" listener of :31-34: when ffmpeg fails
\* the promise never settles
Translate_convertToMp3_noErrorListener(r) ==
    /\ pc[r] = "convert"
    /\ LET inputPath == processedFile[r].filepath
           outputPath == Mp3Path(inputPath)
       IN  \/ /\ inputPath \in disk
              /\ disk' = disk \cup {outputPath}
              /\ processedFile' = [processedFile EXCEPT ![r] =
                     [filepath |-> outputPath, mimetype |-> "audio/mp3"]]
              /\ calls' = [calls EXCEPT ![r] = @ \o
                     << ReturnEv("convertToMp3", outputPath, "audio/mp3"),
                        CallEv("uploadFile", outputPath, "audio/mp3") >>]
              /\ pc' = [pc EXCEPT ![r] = "upload"]
           \/ /\ \E partial \in BOOLEAN :
                    disk' = IF partial THEN disk \cup {outputPath} ELSE disk
              /\ pc' = [pc EXCEPT ![r] = "convertNeverSettles"]
              /\ UNCHANGED << processedFile, calls >>
    /\ UNCHANGED << req, now, parsedFiles, polls, responses, rejected >>

\* translate.ts:17-37 ffmpeg signals end or error, then translate.ts:114-126
Translate_convertToMp3(r) ==
    /\ pc[r] = "convert"
    /\ LET inputPath == processedFile[r].filepath
           outputPath == Mp3Path(inputPath)
       IN  \/ \* :24-30 "end"
              /\ inputPath \in disk
              /\ disk' = disk \cup {outputPath}
              /\ processedFile' = [processedFile EXCEPT ![r] =
                     [filepath |-> outputPath, mimetype |-> "audio/mp3"]]
              /\ calls' = [calls EXCEPT ![r] = @ \o
                     << ReturnEv("convertToMp3", outputPath, "audio/mp3"),
                        CallEv("uploadFile", outputPath, "audio/mp3") >>]
              /\ pc' = [pc EXCEPT ![r] = "upload"]
              /\ UNCHANGED responses
           \/ \* :31-34 "error"; ffmpeg may have begun writing the output
              /\ \E partial \in BOOLEAN :
                    disk' = IF partial THEN disk \cup {outputPath} ELSE disk
              /\ Translate_catch(r, FfmpegThrown, parsedFiles[r],
                     << ThrowEv("convertToMp3", inputPath, FfmpegThrown.message) >>)
              /\ UNCHANGED processedFile
    /\ UNCHANGED << req, now, parsedFiles, polls, rejected >>

\* Translate_uploadFile wrapped in a retry: a throw re-issues the upload
Translate_uploadFile_retry(r) ==
    /\ pc[r] = "upload"
    /\ req[r].endpoint = "translate"
    /\ LET f == processedFile[r]
       IN  \/ /\ f.filepath \in disk
              /\ calls' = [calls EXCEPT ![r] = @ \o
                     << ReturnEv("uploadFile", f.filepath, f.mimetype),
                        CallEv("getFile", NoPath, "") >>]
              /\ pc' = [pc EXCEPT ![r] = "getFile"]
           \/ \E err \in SdkThrown :
                 /\ Len(calls[r]) < 8
                 /\ calls' = [calls EXCEPT ![r] = @ \o
                        << ThrowEv("uploadFile", f.filepath, Translate_details(err)),
                           CallEv("uploadFile", f.filepath, f.mimetype) >>]
                 /\ pc' = [pc EXCEPT ![r] = "upload"]
    /\ UNCHANGED << req, now, disk, parsedFiles, processedFile, polls, responses,
                    rejected >>

\* translate.ts:123-131 uploadFile settles, then the first getFile is issued
Translate_uploadFile(r) ==
    /\ pc[r] = "upload"
    /\ req[r].endpoint = "translate"
    /\ LET f == processedFile[r]
       IN  \/ /\ f.filepath \in disk
              /\ calls' = [calls EXCEPT ![r] = @ \o
                     << ReturnEv("uploadFile", f.filepath, f.mimetype),
                        CallEv("getFile", NoPath, "") >>]
              /\ pc' = [pc EXCEPT ![r] = "getFile"]
              /\ UNCHANGED responses
           \/ \E err \in SdkThrown :
                 Translate_catch(r, err, parsedFiles[r],
                     << ThrowEv("uploadFile", f.filepath, Translate_details(err)) >>)
    /\ UNCHANGED << req, now, disk, parsedFiles, processedFile, polls, rejected >>

\* translate.ts:131-149 getFile settles: loop test, FAILED test, generateContent
Translate_getFile(r) ==
    /\ pc[r] = "getFile"
    /\ req[r].endpoint = "translate"
    /\ \/ \E state \in FileStates :
             /\ Len(polls[r]) < MaxPolls
             /\ state = "PROCESSING" => Len(polls[r]) + 1 < MaxPolls
             /\ polls' = [polls EXCEPT ![r] = Append(@, state)]
             /\ IF Translate_whileProcessing(state)
                THEN \* :132-134
                     /\ calls' = [calls EXCEPT ![r] = @ \o
                            << ReturnEv("getFile", NoPath, state),
                               CallEv("setTimeout", NoPath, "") >>]
                     /\ pc' = [pc EXCEPT ![r] = "sleep"]
                     /\ UNCHANGED responses
                ELSE IF state = "FAILED"
                THEN \* :138-140
                     Translate_catch(r,
                         [kind |-> "Error", message |-> "Audio processing failed"],
                         parsedFiles[r], << ReturnEv("getFile", NoPath, state) >>)
                ELSE \* :142-149
                     /\ calls' = [calls EXCEPT ![r] = @ \o
                            << ReturnEv("getFile", NoPath, state),
                               CallEv("generateContent", NoPath, "") >>]
                     /\ pc' = [pc EXCEPT ![r] = "generate"]
                     /\ UNCHANGED responses
       \/ \E err \in SdkThrown :
             /\ Translate_catch(r, err, parsedFiles[r],
                    << ThrowEv("getFile", NoPath, Translate_details(err)) >>)
             /\ UNCHANGED polls
    /\ UNCHANGED << req, now, disk, parsedFiles, processedFile, rejected >>

\* Translate_setTimeout with an attempt limit: after two PROCESSING results the
\* handler throws instead of polling again
Translate_setTimeout_giveUp(r) ==
    /\ pc[r] = "sleep"
    /\ req[r].endpoint = "translate"
    /\ IF Len(polls[r]) >= 2
       THEN Translate_catch(r, [kind |-> "Error", message |-> "Audio processing failed"],
                parsedFiles[r], << ReturnEv("setTimeout", NoPath, "") >>)
       ELSE /\ calls' = [calls EXCEPT ![r] = @ \o
                   << ReturnEv("setTimeout", NoPath, ""), CallEv("getFile", NoPath, "") >>]
            /\ pc' = [pc EXCEPT ![r] = "getFile"]
            /\ UNCHANGED responses
    /\ UNCHANGED << req, now, disk, parsedFiles, processedFile, polls, rejected >>

\* translate.ts:134-135 the 10 s timer fires and getFile is issued again
Translate_setTimeout(r) ==
    /\ pc[r] = "sleep"
    /\ req[r].endpoint = "translate"
    /\ calls' = [calls EXCEPT ![r] = @ \o
           << ReturnEv("setTimeout", NoPath, ""), CallEv("getFile", NoPath, "") >>]
    /\ pc' = [pc EXCEPT ![r] = "getFile"]
    /\ UNCHANGED << req, now, disk, parsedFiles, processedFile, polls, responses,
                    rejected >>

\* translate.ts:149-165 generateContent settles and the 200 is sent
Translate_generateContent(r) ==
    /\ pc[r] = "generate"
    /\ req[r].endpoint = "translate"
    /\ \/ \E text \in Texts :
             Translate_respond(r, 200,
                 [status |-> "success", timestamp |-> now, generatedContent |-> text],
                 parsedFiles[r], << ReturnEv("generateContent", NoPath, text) >>)
       \/ \E err \in SdkThrown :
             Translate_catch(r, err, parsedFiles[r],
                 << ThrowEv("generateContent", NoPath, Translate_details(err)) >>)
    /\ UNCHANGED << req, now, disk, parsedFiles, processedFile, polls, rejected >>

\* translate.ts:179 fs.unlink(file.filepath) settles; :180 is issued or :181 catches
Translate_unlinkOriginal(r) ==
    /\ pc[r] = "unlinkOriginal"
    /\ LET path == parsedFiles[r].files["file"].filepath
       IN  \/ /\ path \in disk
              /\ disk' = disk \ {path}
              /\ calls' = [calls EXCEPT ![r] = @ \o
                     << ReturnEv("fs.unlink", path, ""),
                        CallEv("fs.unlink", Mp3Path(path), "") >>]
              /\ pc' = [pc EXCEPT ![r] = "unlinkMp3"]
           \/ \* ENOENT when the path is absent, any other errno when it is present
              /\ calls' = [calls EXCEPT ![r] =
                     Append(@, ThrowEv("fs.unlink", path, UnlinkThrown.message))]
              /\ pc' = [pc EXCEPT ![r] = "done"]
              /\ UNCHANGED disk
    /\ UNCHANGED << req, now, parsedFiles, processedFile, polls, responses, rejected >>

\* Translate_unlinkMp3 outside the try of :177: a failed unlink rejects the handler
Translate_unlinkMp3_uncaught(r) ==
    /\ pc[r] = "unlinkMp3"
    /\ LET path == Mp3Path(parsedFiles[r].files["file"].filepath)
       IN  \/ /\ path \in disk
              /\ disk' = disk \ {path}
              /\ calls' = [calls EXCEPT ![r] = Append(@, ReturnEv("fs.unlink", path, ""))]
              /\ UNCHANGED rejected
           \/ /\ calls' = [calls EXCEPT ![r] =
                     Append(@, ThrowEv("fs.unlink", path, UnlinkThrown.message))]
              /\ rejected' = [rejected EXCEPT ![r] = TRUE]
              /\ UNCHANGED disk
    /\ pc' = [pc EXCEPT ![r] = "done"]
    /\ UNCHANGED << req, now, parsedFiles, processedFile, polls, responses >>

\* translate.ts:180 fs.unlink(file.filepath + ".mp3") settles
Translate_unlinkMp3(r) ==
    /\ pc[r] = "unlinkMp3"
    /\ LET path == Mp3Path(parsedFiles[r].files["file"].filepath)
       IN  \/ /\ path \in disk
              /\ disk' = disk \ {path}
              /\ calls' = [calls EXCEPT ![r] = Append(@, ReturnEv("fs.unlink", path, ""))]
           \/ /\ calls' = [calls EXCEPT ![r] =
                     Append(@, ThrowEv("fs.unlink", path, UnlinkThrown.message))]
              /\ UNCHANGED disk
    /\ pc' = [pc EXCEPT ![r] = "done"]
    /\ UNCHANGED << req, now, parsedFiles, processedFile, polls, responses, rejected >>

\* ---------------------------------------------------------------- transcribe (part_001)
\* part_001:19 and :40
transcribeTypes == {"audio/mpeg", "audio/mp3", "audio/wav", "audio/ogg"}

\* part_001:19  filter: ({ mimetype }) => !!mimetype && [...].includes(mimetype)
Transcribe_filter(mimetype) ==
    mimetype # NoMime /\ mimetype \in transcribeTypes

\* part_001:16-20 sets neither uploadDir nor filename: formidable writes to the
\* OS temp directory under a name it draws afresh for every part
Transcribe_filename(r) == << "os.tmpdir()/", "upload_", ToString(r) >>

\* part_001:55  while (processedFile.state === FileState.PROCESSING)
Transcribe_whileProcessing(state) == state = "PROCESSING"

\* part_001:89
Transcribe_details(err) ==
    IF err.kind = "Error" THEN err.message ELSE "Unknown error"

\* return res.status(status).json(body); the handler has no finally block
Transcribe_respond(r, status, body, log) ==
    /\ responses' = [responses EXCEPT ![r] =
                        Append(@, [status |-> status, body |-> body])]
    /\ calls' = [calls EXCEPT ![r] = @ \o log \o << RespondEv(status) >>]
    /\ pc' = [pc EXCEPT ![r] = "done"]

\* part_001:85-91
Transcribe_catch(r, err, log) ==
    Transcribe_respond(r, 500,
                       [error |-> "Processing failed", details |-> Transcribe_details(err)],
                       log)

\* Transcribe_handler with the return of :32 lost: the 405 is sent and the handler goes on
Transcribe_handler_noReturn(r) ==
    /\ pc[r] = "entry"
    /\ req[r].endpoint = "transcribe"
    /\ IF req[r].method # "POST"
       THEN /\ responses' = [responses EXCEPT ![r] =
                    Append(@, [status |-> 405, body |-> [error |-> "Method not allowed"]])]
            /\ calls' = [calls EXCEPT ![r] = @ \o
                    << RespondEv(405), CallEv("parseFormData", NoPath, "") >>]
       ELSE /\ calls' = [calls EXCEPT ![r] = Append(@, CallEv("parseFormData", NoPath, ""))]
            /\ UNCHANGED responses
    /\ pc' = [pc EXCEPT ![r] = "parse"]
    /\ UNCHANGED << req, now, disk, parsedFiles, processedFile, polls, rejected >>

\* part_001:30-37
Transcribe_handler(r) ==
    /\ pc[r] = "entry"
    /\ req[r].endpoint = "transcribe"
    /\ IF req[r].method # "POST"
       THEN Transcribe_respond(r, 405, [error |-> "Method not allowed"], << >>)
       ELSE /\ calls' = [calls EXCEPT ![r] = Append(@, CallEv("parseFormData", NoPath, ""))]
            /\ pc' = [pc EXCEPT ![r] = "parse"]
            /\ UNCHANGED responses
    /\ UNCHANGED << req, now, disk, parsedFiles, processedFile, polls, rejected >>

\* part_001:15-28 parseFormData settles, then part_001:37-51 up to uploadFile
Transcribe_parseFormData(r) ==
    /\ pc[r] = "parse"
    /\ req[r].endpoint = "transcribe"
    /\ LET u == req[r].upload
           accepted == u.present /\ Transcribe_filter(u.mimetype)
           path == Transcribe_filename(r)
           file == [filepath |-> path, mimetype |-> u.mimetype,
                    originalFilename |-> u.originalFilename]
           files == IF accepted THEN [k \in {u.field} |-> file] ELSE << >>
       IN  \/ \* :24 if (err) reject(err); formidable removes what it wrote
              /\ Transcribe_catch(r, ParserThrown,
                     << ThrowEv("parseFormData", NoPath, ParserThrown.message) >>)
              /\ UNCHANGED << disk, processedFile >>
           \/ \* :25 resolve({ files })
              /\ disk' = IF accepted THEN disk \cup {path} ELSE disk
              /\ IF \/ "file" \notin DOMAIN files
                    \/ file.mimetype = NoMime
                    \/ file.mimetype \notin transcribeTypes
                 THEN \* :40-42
                      /\ Transcribe_respond(r, 400, [error |-> "Invalid or missing file"],
                             << ReturnEv("parseFormData",
                                         IF accepted THEN path ELSE NoPath, "") >>)
                      /\ UNCHANGED processedFile
                 ELSE \* :48
                      /\ processedFile' = [processedFile EXCEPT ![r] =
                             [filepath |-> path, mimetype |-> file.mimetype]]
                      /\ calls' = [calls EXCEPT ![r] = @ \o
                             << ReturnEv("parseFormData", path, ""),
                                CallEv("uploadFile", path, file.mimetype) >>]
                      /\ pc' = [pc EXCEPT ![r] = "upload"]
                      /\ UNCHANGED responses
    /\ UNCHANGED << req, now, parsedFiles, polls, rejected >>

\* part_001:48-54 uploadFile settles, then the first getFile is issued
Transcribe_uploadFile(r) ==
    /\ pc[r] = "upload"
    /\ req[r].endpoint = "transcribe"
    /\ LET f == processedFile[r]
       IN  \/ /\ f.filepath \in disk
              /\ calls' = [calls EXCEPT ![r] = @ \o
                     << ReturnEv("uploadFile", f.filepath, f.mimetype),
                        CallEv("getFile", NoPath, "") >>]
              /\ pc' = [pc EXCEPT ![r] = "getFile"]
              /\ UNCHANGED responses
           \/ \E err \in SdkThrown :
                 Transcribe_catch(r, err,
                     << ThrowEv("uploadFile", f.filepath, Transcribe_details(err)) >>)
    /\ UNCHANGED << req, now, disk, parsedFiles, processedFile, polls, rejected >>

\* part_001:54-69 getFile settles: loop test, FAILED test, generateContent
Transcribe_getFile(r) ==
    /\ pc[r] = "getFile"
    /\ req[r].endpoint = "transcribe"
    /\ \/ \E state \in FileStates :
             /\ Len(polls[r]) < MaxPolls
             /\ state = "PROCESSING" => Len(polls[r]) + 1 < MaxPolls
             /\ polls' = [polls EXCEPT ![r] = Append(@, state)]
             /\ IF Transcribe_whileProcessing(state)
                THEN \* :55-56
                     /\ calls' = [calls EXCEPT ![r] = @ \o
                            << ReturnEv("getFile", NoPath, state),
                               CallEv("setTimeout", NoPath, "") >>]
                     /\ pc' = [pc EXCEPT ![r] = "sleep"]
                     /\ UNCHANGED responses
                ELSE IF state = "FAILED"
                THEN \* :60-62
                     Transcribe_catch(r,
                         [kind |-> "Error", message |-> "Audio processing failed"],
                         << ReturnEv("getFile", NoPath, state) >>)
                ELSE \* :64-69
                     /\ calls' = [calls EXCEPT ![r] = @ \o
                            << ReturnEv("getFile", NoPath, state),
                               CallEv("generateContent", NoPath, "") >>]
                     /\ pc' = [pc EXCEPT ![r] = "generate"]
                     /\ UNCHANGED responses
       \/ \E err \in SdkThrown :
             /\ Transcribe_catch(r, err,
                    << ThrowEv("getFile", NoPath, Transcribe_details(err)) >>)
             /\ UNCHANGED polls
    /\ UNCHANGED << req, now, disk, parsedFiles, processedFile, rejected >>

\* part_001:56-57 the 10 s timer fires and getFile is issued again
Transcribe_setTimeout(r) ==
    /\ pc[r] = "sleep"
    /\ req[r].endpoint = "transcribe"
    /\ calls' = [calls EXCEPT ![r] = @ \o
           << ReturnEv("setTimeout", NoPath, ""), CallEv("getFile", NoPath, "") >>]
    /\ pc' = [pc EXCEPT ![r] = "getFile"]
    /\ UNCHANGED << req, now, disk, parsedFiles, processedFile, polls, responses,
                    rejected >>

\* part_001:69-84 generateContent settles and the 200 is sent
Transcribe_generateContent(r) ==
    /\ pc[r] = "generate"
    /\ req[r].endpoint = "transcribe"
    /\ \/ \E text \in Texts :
             Transcribe_respond(r, 200,
                 [status |-> "success", generatedContent |-> text],
                 << ReturnEv("generateContent", NoPath, text) >>)
       \/ \E err \in SdkThrown :
             Transcribe_catch(r, err,
                 << ThrowEv("generateContent", NoPath, Transcribe_details(err)) >>)
    /\ UNCHANGED << req, now, disk, parsedFiles, processedFile, polls, rejected >>

\* ---------------------------------------------------------------- specification
Next ==
    \/ Tick
    \/ \E r \in Requests :
          \/ Translate_handler(r)
          \/ Translate_parseFormData(r)
          \/ Translate_convertToMp3(r)
          \/ Translate_uploadFile(r)
          \/ Translate_getFile(r)
          \/ Translate_setTimeout(r)
          \/ Translate_generateContent(r)
          \/ Translate_unlinkOriginal(r)
          \/ Translate_unlinkMp3(r)
          \/ Transcribe_handler(r)
          \/ Transcribe_parseFormData(r)
          \/ Transcribe_uploadFile(r)
          \/ Transcribe_getFile(r)
          \/ Transcribe_setTimeout(r)
          \/ Transcribe_generateContent(r)

Spec == Init /\ [][Next]_vars

\* Two requests in flight on the translate endpoint at once: every await of one
\* handler is a point where the other handler may run.
ConcurrentUploads ==
    [present : {TRUE}, field : {"file"}, mimetype : {"audio/wav", "video/webm"},
     originalFilename : Filenames]
ConcurrentRequestSet ==
    [endpoint : {"translate"}, method : {"POST"}, upload : ConcurrentUploads]

InitConcurrent ==
    /\ req \in [Requests -> ConcurrentRequestSet]
    /\ pc = [r \in Requests |-> "entry"]
    /\ now = 0
    /\ disk = {}
    /\ parsedFiles = [r \in Requests |-> NullFiles]
    /\ processedFile = [r \in Requests |-> NoProcessed]
    /\ polls = [r \in Requests |-> << >>]
    /\ calls = [r \in Requests |-> << >>]
    /\ responses = [r \in Requests |-> << >>]
    /\ rejected = [r \in Requests |-> FALSE]

NextConcurrent ==
    \/ Tick
    \/ \E r \in Requests :
          \/ Translate_handler(r)
          \/ Translate_parseFormData(r)
          \/ Translate_convertToMp3(r)
          \/ Translate_uploadFile(r)
          \/ Translate_getFile(r)
          \/ Translate_setTimeout(r)
          \/ Translate_generateContent(r)
          \/ Translate_unlinkOriginal(r)
          \/ Translate_unlinkMp3(r)

SpecConcurrent == InitConcurrent /\ [][NextConcurrent]_vars

\* One step of the handler of request r: the continuation that runs when the
\* call it awaits settles.
Step(r) ==
    \/ Translate_handler(r)
    \/ Translate_parseFormData(r)
    \/ Translate_convertToMp3(r)
    \/ Translate_uploadFile(r)
    \/ Translate_getFile(r)
    \/ Translate_setTimeout(r)
    \/ Translate_generateContent(r)
    \/ Translate_unlinkOriginal(r)
    \/ Translate_unlinkMp3(r)
    \/ Transcribe_handler(r)
    \/ Transcribe_parseFormData(r)
    \/ Transcribe_uploadFile(r)
    \/ Transcribe_getFile(r)
    \/ Transcribe_setTimeout(r)
    \/ Transcribe_generateContent(r)

\* Every awaited call settles and the event loop then runs its continuation;
\* getFile leaves PROCESSING within MaxPolls calls.
SpecLive == Init /\ [][Next]_vars /\ \A r \in Requests : WF_vars(Step(r))

\* ---------------------------------------------------------------- claims
Active(r) == pc[r] # "absent"
Last(seq) == seq[Len(seq)]
PipelineOps == {"parseFormData", "convertToMp3", "uploadFile", "getFile", "generateContent"}
IsCall(e, ops) == e.kind = "call" /\ e.op \in ops
\* the path parseFormData stored the request's upload at, if it stored one
OriginalPaths(r) ==
    { calls[r][i].path : i \in { k \in DOMAIN calls[r] :
          /\ calls[r][k].kind = "return"
          /\ calls[r][k].op = "parseFormData"
          /\ calls[r][k].path # NoPath } }
AllowList(endpoint) == IF endpoint = "translate" THEN supportedTypes ELSE transcribeTypes
ParserFailed(r) ==
    \E i \in DOMAIN calls[r] :
        calls[r][i] = ThrowEv("parseFormData", NoPath, ParserThrown.message)

\* C1: a request whose method is not POST gets exactly the response 405 and nothing
\* else happens for it: no parse, transcode, uploadFile, getFile, generateContent
\* or unlink is ever issued, and no file is written.
C1_NonPostIs405 ==
    \A r \in Requests :
        (Active(r) /\ req[r].method # "POST") =>
            /\ pc[r] \in {"entry", "done"}
            /\ \A i \in DOMAIN calls[r] : calls[r][i].kind = "respond"
            /\ pc[r] = "done" =>
                  /\ Len(responses[r]) = 1
                  /\ responses[r][1].status = 405
            /\ disk = {}

C1_Witness ==
    \E r \in Requests :
        /\ req[r].method # "POST"
        /\ req[r].endpoint = "translate"
        /\ pc[r] = "done"
        /\ Len(responses[r]) = 1

\* C2 (as claimed): a POST carrying a file whose MIME type is outside the
\* endpoint's allow-list, and which the parser read without error, ends with the
\* single response 400 and leaves no temp file of the request on disk.
C2_UnsupportedMimeIs400 ==
    \A r \in Requests :
        ( /\ Active(r)
          /\ req[r].method = "POST"
          /\ req[r].upload.present
          /\ req[r].upload.mimetype \notin AllowList(req[r].endpoint)
          /\ ~ParserFailed(r)
          /\ pc[r] = "done" ) =>
            /\ Len(responses[r]) = 1
            /\ responses[r][1].status = 400
            /\ disk = {}

\* C3 (as claimed): once a request has finished, no file is left at its original
\* upload path nor at that path with ".mp3" appended.
C3_NoTempFileRemains ==
    \A r \in Requests :
        pc[r] = "done" =>
            \A p \in OriginalPaths(r) : p \notin disk /\ Mp3Path(p) \notin disk

\* C4: when getFile has reported FAILED, the request is answered 500 with details
\* that contain "processing failed" (ignoring case), generateContent is never
\* called, and the body carries no generatedContent.
C4_FailedStateIs500 ==
    \A r \in Requests :
        (polls[r] # << >> /\ Last(polls[r]) = "FAILED") =>
            /\ Len(responses[r]) = 1
            /\ responses[r][1].status = 500
            /\ Includes(ToLowerCase(Chars(responses[r][1].body.details)),
                        Chars("processing failed"))
            /\ "generatedContent" \notin DOMAIN responses[r][1].body
            /\ \A i \in DOMAIN calls[r] : ~IsCall(calls[r][i], {"generateContent"})

C4_Witness ==
    \E r \in Requests :
        /\ polls[r] = << "PROCESSING", "FAILED" >>
        /\ pc[r] = "done"
        /\ responses[r][1].status = 500

\* C5: after getFile has returned ACTIVE or FAILED no further getFile is issued,
\* and every getFile call but the first follows a getFile that returned PROCESSING.
C5_PollingStopsAtTerminal ==
    \A r \in Requests :
        LET GetFileCalls == { i \in DOMAIN calls[r] : IsCall(calls[r][i], {"getFile"}) }
            GetFileSettled == { i \in DOMAIN calls[r] :
                                   /\ calls[r][i].op = "getFile"
                                   /\ calls[r][i].kind \in {"return", "throw"} }
        IN  /\ \A i \in GetFileSettled :
                  (calls[r][i].kind = "return" /\ calls[r][i].val \in {"ACTIVE", "FAILED"})
                      => \A j \in GetFileCalls : j < i
            /\ \A j \in GetFileCalls :
                  (\E k \in GetFileCalls : k < j) =>
                      \E i \in GetFileSettled :
                          /\ i < j
                          /\ \A i2 \in GetFileSettled : i2 < j => i2 <= i
                          /\ calls[r][i] = ReturnEv("getFile", NoPath, "PROCESSING")
            /\ \A i \in 1..(Len(polls[r]) - 1) : polls[r][i] = "PROCESSING"

C5_Witness ==
    \E r \in Requests :
        /\ polls[r] = << "PROCESSING", "PROCESSING", "ACTIVE" >>
        /\ pc[r] = "done"

\* the claim's test of the parsed file's MIME type
Convertible(mimetype) ==
    StartsWith(Chars(mimetype), Chars("video/")) \/ mimetype = "audio/webm"
HasParsedFile(r) ==
    /\ ~parsedFiles[r].null
    /\ "file" \in DOMAIN parsedFiles[r].files

\* C6: on the translate endpoint convertToMp3 is called, on the original path,
\* exactly when the parsed file's MIME type starts with "video/" or is
\* "audio/webm"; uploadFile is then called only after convertToMp3 has returned
\* and receives <original>.mp3 with "audio/mp3"; for any other type convertToMp3
\* is never called and uploadFile receives the original path and MIME type.
C6_TranscodeExactlyWhenNeeded ==
    \A r \in Requests :
        (Active(r) /\ req[r].endpoint = "translate" /\ HasParsedFile(r)) =>
            LET file == parsedFiles[r].files["file"]
                ConvertEvents == { i \in DOMAIN calls[r] : calls[r][i].op = "convertToMp3" }
            IN  /\ (file.mimetype # NoMime /\ Convertible(file.mimetype)) =>
                      \E i \in ConvertEvents :
                          calls[r][i] = CallEv("convertToMp3", file.filepath, "")
                /\ ~Convertible(file.mimetype) => ConvertEvents = {}
                /\ \A i \in DOMAIN calls[r] :
                      IsCall(calls[r][i], {"uploadFile"}) =>
                          IF Convertible(file.mimetype)
                          THEN /\ calls[r][i] =
                                    CallEv("uploadFile", Mp3Path(file.filepath), "audio/mp3")
                               /\ \E j \in ConvertEvents :
                                     /\ j < i
                                     /\ calls[r][j] = ReturnEv("convertToMp3",
                                                         Mp3Path(file.filepath), "audio/mp3")
                          ELSE calls[r][i] =
                                    CallEv("uploadFile", file.filepath, file.mimetype)

C6_Witness ==
    \E r \in Requests :
        /\ req[r].endpoint = "translate"
        /\ req[r].upload.mimetype = "audio/webm"
        /\ \E i \in DOMAIN calls[r] :
              calls[r][i].kind = "return" /\ calls[r][i].op = "uploadFile"

\* C7: an error raised by parsing, transcoding, uploading, polling (a throw, or
\* the FAILED state) or generating is answered by the single response 500 with
\* error "Processing failed", and after it no pipeline step is called again.
C7_ErrorIs500NoRetry ==
    \A r \in Requests :
        \A i \in DOMAIN calls[r] :
            ( /\ calls[r][i].op \in PipelineOps
              /\ \/ calls[r][i].kind = "throw"
                 \/ calls[r][i] = ReturnEv("getFile", NoPath, "FAILED") ) =>
                /\ Len(responses[r]) = 1
                /\ responses[r][1].status = 500
                /\ responses[r][1].body.error = "Processing failed"
                /\ \A j \in DOMAIN calls[r] :
                      j > i => ~IsCall(calls[r][j], PipelineOps)

C7_Witness ==
    \E r \in Requests :
        /\ pc[r] = "done"
        /\ \E i \in DOMAIN calls[r] :
              calls[r][i].kind = "throw" /\ calls[r][i].op = "generateContent"
        /\ responses[r][1].status = 500

\* C8: on the translate endpoint the response is sent before cleanup starts and
\* no cleanup step, whether its unlink succeeds or fails, changes it or makes the
\* handler reject.
C8_CleanupNeverAffectsResponse ==
    [][ \A r \in Requests :
            pc[r] \in {"unlinkOriginal", "unlinkMp3"} =>
                /\ Len(responses[r]) = 1
                /\ responses'[r] = responses[r]
                /\ ~rejected'[r]
                /\ pc'[r] \in {"unlinkOriginal", "unlinkMp3", "done"} ]_vars

C8_Witness ==
    \E r \in Requests :
        /\ pc[r] = "done"
        /\ responses[r][1].status = 200
        /\ ~rejected[r]
        /\ \E i \in DOMAIN calls[r] :
              calls[r][i].kind = "throw" /\ calls[r][i].op = "fs.unlink"

\* every local path the request introduced: the upload and the transcoder's output
IntroducedPaths(r) ==
    OriginalPaths(r) \cup
    { calls[r][i].path : i \in { k \in DOMAIN calls[r] :
          calls[r][k].kind = "return" /\ calls[r][k].op = "convertToMp3" } }

\* C9 (as claimed): when a request has finished, fs.unlink has been called on
\* every local path the request introduced.
C9_CleanupAttemptsEveryPath ==
    \A r \in Requests :
        pc[r] = "done" =>
            \A p \in IntroducedPaths(r) :
                \E i \in DOMAIN calls[r] : calls[r][i] = CallEv("fs.unlink", p, "")

TranscoderFailed(r) ==
    /\ req[r].endpoint = "translate"
    /\ \E i \in DOMAIN calls[r] :
          calls[r][i].kind = "throw" /\ calls[r][i].op = "convertToMp3"
CallCount(r, op) ==
    Cardinality({ i \in DOMAIN calls[r] : IsCall(calls[r][i], {op}) })

\* C10 (as claimed): after a transcoder error the transcoder was called once,
\* uploadFile never, the response is 500, and once the handler has finished the
\* original upload is gone from disk.
C10_TranscodeErrorOriginalDeleted ==
    \A r \in Requests :
        (TranscoderFailed(r) /\ pc[r] = "done") =>
            /\ CallCount(r, "convertToMp3") = 1
            /\ CallCount(r, "uploadFile") = 0
            /\ Len(responses[r]) = 1
            /\ responses[r][1].status = 500
            /\ \A p \in OriginalPaths(r) : p \notin disk

\* C10 (amended): after a transcoder error the transcoder was called once,
\* uploadFile never, the response is 500, and cleanup calls fs.unlink on the
\* original upload exactly once; the file is gone when that unlink succeeds.
C10_TranscodeErrorOriginalUnlinked ==
    \A r \in Requests :
        TranscoderFailed(r) =>
            /\ CallCount(r, "convertToMp3") = 1
            /\ CallCount(r, "uploadFile") = 0
            /\ Len(responses[r]) = 1
            /\ responses[r][1].status = 500
            /\ OriginalPaths(r) # {}
            /\ \A p \in OriginalPaths(r) :
                  /\ Cardinality({ i \in DOMAIN calls[r] :
                                      calls[r][i] = CallEv("fs.unlink", p, "") }) = 1
                  /\ (\E i \in DOMAIN calls[r] : calls[r][i] = ReturnEv("fs.unlink", p, ""))
                        => p \notin disk
                  /\ pc[r] = "done" =>
                        \E i \in DOMAIN calls[r] :
                            /\ calls[r][i].op = "fs.unlink"
                            /\ calls[r][i].path = p
                            /\ calls[r][i].kind \in {"return", "throw"}

C10_Witness ==
    \E r \in Requests :
        /\ TranscoderFailed(r)
        /\ pc[r] = "done"
        /\ \E i \in DOMAIN calls[r] :
              /\ calls[r][i].kind = "return"
              /\ calls[r][i].op = "fs.unlink"
              /\ calls[r][i].path \in OriginalPaths(r)
        /\ \A p \in OriginalPaths(r) : p \notin disk

\* the local paths a request uses: its upload path and that path with ".mp3"
TempPaths(r) ==
    UNION { {p, Mp3Path(p)} : p \in OriginalPaths(r) }

\* C11 (as claimed): two requests on the translate endpoint never use a common
\* temp path, whatever the interleaving of their steps.
C11_ConcurrentPathsDistinct ==
    \A r1 \in Requests : \A r2 \in Requests :
        (r1 # r2 /\ req[r1].endpoint = "translate" /\ req[r2].endpoint = "translate") =>
            TempPaths(r1) \cap TempPaths(r2) = {}

GetFileSettledBefore(r, i) ==
    { k \in DOMAIN calls[r] :
         /\ k < i
         /\ calls[r][k].op = "getFile"
         /\ calls[r][k].kind \in {"return", "throw"} }
\* the most recent getFile before event i returned ACTIVE
LastGetFileActiveBefore(r, i) ==
    \E g \in GetFileSettledBefore(r, i) :
        /\ \A k \in GetFileSettledBefore(r, i) : k <= g
        /\ calls[r][g] = ReturnEv("getFile", NoPath, "ACTIVE")

\* C12: generateContent is called at most once per request, and only after
\* uploadFile has returned and when the most recent getFile returned ACTIVE; a
\* 200 is sent only after uploadFile returned, then the last getFile returned
\* ACTIVE, then generateContent returned.
C12_SuccessOnlyAfterActive ==
    \A r \in Requests :
        /\ CallCount(r, "generateContent") <= 1
        /\ \A i \in DOMAIN calls[r] :
              IsCall(calls[r][i], {"generateContent"}) =>
                  /\ LastGetFileActiveBefore(r, i)
                  /\ \E u \in 1..(i - 1) :
                        calls[r][u].kind = "return" /\ calls[r][u].op = "uploadFile"
        /\ \A i \in DOMAIN calls[r] :
              calls[r][i] = RespondEv(200) =>
                  \E u \in 1..(i - 1) : \E g \in (u + 1)..(i - 1) : \E c \in (g + 1)..(i - 1) :
                      /\ calls[r][u].kind = "return" /\ calls[r][u].op = "uploadFile"
                      /\ calls[r][g] = ReturnEv("getFile", NoPath, "ACTIVE")
                      /\ LastGetFileActiveBefore(r, i)
                      /\ calls[r][c].kind = "return" /\ calls[r][c].op = "generateContent"
        /\ \A i \in DOMAIN responses[r] :
              responses[r][i].status = 200 =>
                  \E k \in DOMAIN calls[r] : calls[r][k] = RespondEv(200)

C12_Witness ==
    \E r \in Requests :
        /\ req[r].endpoint = "transcribe"
        /\ polls[r] = << "PROCESSING", "ACTIVE" >>
        /\ Len(responses[r]) = 1
        /\ responses[r][1].status = 200

\* every getFile of the request so far returned PROCESSING
OnlyProcessingSoFar(r) ==
    /\ polls[r] # << >>
    /\ \A i \in DOMAIN polls[r] : polls[r][i] = "PROCESSING"
    /\ \A i \in DOMAIN calls[r] :
          ~(calls[r][i].kind = "throw" /\ calls[r][i].op = "getFile")

\* C13: however many getFile calls have returned PROCESSING (and none anything
\* else), the handler has sent no response and is waiting to poll or polling
\* again: one getFile call per PROCESSING result, plus the one in flight.
C13_PollingNeverGivesUp ==
    \A r \in Requests :
        OnlyProcessingSoFar(r) =>
            /\ responses[r] = << >>
            /\ pc[r] \in {"sleep", "getFile"}
            /\ CallCount(r, "getFile") =
                   Len(polls[r]) + (IF pc[r] = "getFile" THEN 1 ELSE 0)

C13_Witness ==
    \E r \in Requests :
        /\ req[r].endpoint = "translate"
        /\ polls[r] = << "PROCESSING", "PROCESSING" >>
        /\ pc[r] = "getFile"
        /\ responses[r] = << >>

\* C14: on the translate endpoint every fs.unlink is issued after the response
\* has been sent, and after every uploadFile call of the request has settled.
C14_CleanupAfterResponse ==
    \A r \in Requests :
        (Active(r) /\ req[r].endpoint = "translate") =>
            \A i \in DOMAIN calls[r] :
                IsCall(calls[r][i], {"fs.unlink"}) =>
                    /\ \E k \in 1..(i - 1) : calls[r][k].kind = "respond"
                    /\ \A u \in DOMAIN calls[r] :
                          IsCall(calls[r][u], {"uploadFile"}) =>
                              \E k \in (u + 1)..(i - 1) :
                                  /\ calls[r][k].op = "uploadFile"
                                  /\ calls[r][k].kind \in {"return", "throw"}

C14_Witness ==
    \E r \in Requests :
        /\ req[r].endpoint = "translate"
        /\ responses[r] # << >>
        /\ responses[r][1].status = 200
        /\ \E i \in DOMAIN calls[r] :
              calls[r][i].kind = "return" /\ calls[r][i].op = "fs.unlink"

\* C15: a request is never sent a second response, and a handler that has
\* finished (or has reached its cleanup) has sent exactly one, with status 200,
\* 400, 405 or 500, and did not reject.
C15_ExactlyOneResponse ==
    \A r \in Requests :
        /\ Len(responses[r]) <= 1
        /\ Cardinality({ i \in DOMAIN calls[r] : calls[r][i].kind = "respond" })
               = Len(responses[r])
        /\ pc[r] \in {"done", "unlinkOriginal", "unlinkMp3"} =>
              /\ Len(responses[r]) = 1
              /\ responses[r][1].status \in {200, 400, 405, 500}
              /\ ~rejected[r]

C15_Witness ==
    \E r \in Requests :
        /\ req[r].endpoint = "transcribe"
        /\ req[r].method = "POST"
        /\ pc[r] = "done"
        /\ Len(responses[r]) = 1
        /\ responses[r][1].status = 400

\* C16: when every awaited call settles and the remote state leaves PROCESSING,
\* every POST request is eventually answered (exactly once) and its handler
\* finishes, which on the translate endpoint includes the cleanup.
C16_EveryPostFinishes ==
    \A r \in Requests :
        (pc[r] = "entry" /\ req[r].method = "POST")
            ~> (pc[r] = "done" /\ Len(responses[r]) = 1)

C16_Witness ==
    \E r \in Requests :
        /\ req[r].endpoint = "translate"
        /\ req[r].method = "POST"
        /\ pc[r] = "done"
        /\ Len(responses[r]) = 1
        /\ \E i \in DOMAIN calls[r] :
              /\ calls[r][i].kind = "return"
              /\ calls[r][i].op = "fs.unlink"
              /\ \E p \in OriginalPaths(r) : calls[r][i].path = Mp3Path(p)

\* translate.ts:174-180: the paths the finally block calls fs.unlink on
CleanupTargets(r) ==
    IF HasParsedFile(r)
    THEN { parsedFiles[r].files["file"].filepath,
           Mp3Path(parsedFiles[r].files["file"].filepath) }
    ELSE {}

\* C17 (as claimed): on the translate endpoint every local file the request
\* wrote lies at a path cleanup targets: the transcoder's output is the upload
\* path with ".mp3", the second path cleanup unlinks, and nothing is written
\* anywhere else.
C17_CleanupTargetsCoverWrites ==
    \A r \in Requests :
        (Active(r) /\ req[r].endpoint = "translate") =>
            /\ IntroducedPaths(r) \subseteq CleanupTargets(r)
            /\ disk \subseteq CleanupTargets(r)
            /\ \A i \in DOMAIN calls[r] :
                  IsCall(calls[r][i], {"fs.unlink"}) =>
                      calls[r][i].path \in CleanupTargets(r)

====
